---- MODULE Spec2Model ----
(***************************************************************************)
(* Model of playwright-report-comment: parseReport and renderReportSummary *)
(* (src/src/report.ts) and the formatting utilities formatDuration, n,     *)
(* upperCaseFirst and renderMarkdownTable (src/src/formatting.ts).         *)
(*                                                                         *)
(* Every exported function is pure, so the state is the argument, the      *)
(* locals and the result of one call, with pc telling whether the call has *)
(* returned.  There is one specification per entry point:                  *)
(*   SpecParse    parseReport(data)                                        *)
(*   SpecRender   parseReport(data), then renderReportSummary(summary, o)  *)
(*   SpecDuration formatDuration(milliseconds)                             *)
(*   SpecTable    renderMarkdownTable(rows, headers)                       *)
(*                                                                         *)
(* Representation of JavaScript values:                                    *)
(*   - an object is a record whose DOMAIN is the set of keys it has;       *)
(*   - an array is a sequence;                                             *)
(*   - a string that the code only copies or concatenates is a TLA+ string;*)
(*   - a string that the code trims or that a property has to take apart   *)
(*     is a sequence of tokens (TLA+ strings), white space being tokens of *)
(*     its own, so that trim() and join() act on it as they do on text;    *)
(*   - a number that may carry one decimal (the seconds of formatDuration) *)
(*     is the integer count of its tenths.                                 *)
(***************************************************************************)
EXTENDS Integers, Sequences, FiniteSets, TLC

VARIABLES
    pc,            \* which call has returned
    data,          \* parseReport: the text handed in, as what JSON.parse makes of it
    summary,       \* parseReport: the ReportSummary returned, or the error thrown
    options,       \* renderReportSummary: the ReportRenderOptions
    markdown,      \* renderReportSummary: the string returned
    milliseconds,  \* formatDuration: the argument
    components,    \* formatDuration: the locals days, hours, minutes, seconds
    text,          \* formatDuration: the string returned
    rows,          \* renderMarkdownTable: the rows argument
    headers,       \* renderMarkdownTable: the headers argument
    table          \* renderMarkdownTable: the string returned, as its lines

vars == <<pc, data, summary, options, markdown, milliseconds, components, text,
          rows, headers, table>>

\* The value of a variable that the call under way does not use.
Unused == [unused |-> TRUE]

(***************************************************************************)
(* Bounds of the model.                                                    *)
(***************************************************************************)
\* formatDuration is checked on every millisecond count up to MaxMs ...
MaxMs == 61500
\* ... and on sampled counts of up to MaxDays days.
MaxDays == 2
\* renderMarkdownTable: at most MaxRows rows of at most MaxCols columns.
MaxRows == 3
MaxCols == 5

(***************************************************************************)
(* Array helpers: Array.prototype.filter(Boolean), join, slice(0, n).      *)
(***************************************************************************)
Min(a, b) == IF a <= b THEN a ELSE b

\* slice(0, count) of an array
SliceFront(array, count) == SubSeq(array, 1, Min(Len(array), count))

\* join(separator) of an array of strings
RECURSIVE Join(_, _)
Join(strings, separator) ==
    IF Len(strings) = 0 THEN ""
    ELSE IF Len(strings) = 1 THEN strings[1]
    ELSE strings[1] \o separator \o Join(Tail(strings), separator)

\* filter(Boolean) of an array of strings: the empty string is falsy.
FilterBoolean(strings) == SelectSeq(strings, LAMBDA s : s # "")

(***************************************************************************)
(* formatting.ts: n, upperCaseFirst                                        *)
(***************************************************************************)
\* A whole number as the count of its tenths.
Tenths(k) == 10 * k

\* `${number}`: the shortest decimal of a number given in tenths.
NumberToString(x) ==
    IF x % 10 = 0 THEN ToString(x \div 10)
    ELSE ToString(x \div 10) \o "." \o ToString(x % 10)

\* n(str, n): n === 1 ? str : `${str}s`   (num in tenths)
n(str, num) == IF num = Tenths(1) THEN str ELSE str \o "s"

\* upperCaseFirst(str), on the three strings it is called with.
UpperCaseFirst(str) ==
    CASE str = "failed" -> "Failed"
      [] str = "flaky" -> "Flaky"
      [] str = "skipped" -> "Skipped"
      [] OTHER -> str

(***************************************************************************)
(* formatting.ts: formatDuration                                           *)
(***************************************************************************)
SECOND == 1000
MINUTE == 60 * SECOND
HOUR == 60 * MINUTE
DAY == 24 * HOUR

RECURSIVE BitLength(_)
BitLength(k) == IF k = 0 THEN 0 ELSE 1 + BitLength(k \div 2)

\* remaining / SECOND is an IEEE-754 double: the quotient rounded to 53
\* significant bits.  DivisionTail is the remainder the long division leaves
\* after those bits (bits: the significant bits produced so far); 0 means the
\* quotient is exact.
RECURSIVE DivisionTail(_, _)
DivisionTail(rem, bits) ==
    IF rem = 0 \/ bits >= 53 THEN rem
    ELSE LET bit == (2 * rem) \div SECOND
         IN  DivisionTail((2 * rem) % SECOND,
                          IF bits > 0 \/ bit = 1 THEN bits + 1 ELSE bits)

\* TRUE when the double remaining / SECOND is not below the exact quotient
\* (it is exact, or the rounding to 53 bits went up).
DoubleNotBelow(remaining) ==
    LET tail == DivisionTail(remaining % SECOND, BitLength(remaining \div SECOND))
    IN  tail = 0 \/ 2 * tail > SECOND

\* Variant: the decimals cut off instead of rounded; C7 fails on it.
ToFixed1Truncating(remaining) == (remaining * 10) \div SECOND

\* +(remaining / SECOND).toFixed(1), in tenths.  toFixed takes the integer n
\* with n / 10 nearest to the double, and the larger n of two nearest.  The
\* double is within 2^-47 of the exact quotient, so it decides only the case
\* where the exact quotient lies half way between two tenths.
ToFixed1(remaining) ==
    LET lower == (remaining * 10) \div SECOND
        rest == (remaining * 10) % SECOND
    IN  IF 2 * rest < SECOND THEN lower
        ELSE IF 2 * rest > SECOND THEN lower + 1
        ELSE IF DoubleNotBelow(remaining) THEN lower + 1 ELSE lower

\* The locals of formatDuration (lines 16-27); seconds in tenths.
DurationComponents(ms) ==
    [days |-> ms \div DAY,
     hours |-> (ms % DAY) \div HOUR,
     minutes |-> ((ms % DAY) % HOUR) \div MINUTE,
     seconds |-> ToFixed1(((ms % DAY) % HOUR) % MINUTE)]

\* x && `${x} ${n(label, x)}`: 0 when x is 0, which filter(Boolean) drops as
\* it drops the empty string standing for it here.
Labelled(x, label) ==
    IF x = 0 THEN "" ELSE NumberToString(x) \o " " \o n(label, x)

\* The string formatDuration returns (lines 29-36).
DurationText(c) ==
    Join(FilterBoolean(<<Labelled(Tenths(c.days), "day"),
                         Labelled(Tenths(c.hours), "hour"),
                         Labelled(Tenths(c.minutes), "minute"),
                         Labelled(c.seconds, "second")>>), ", ")

formatDuration(ms) == DurationText(DurationComponents(ms))

(***************************************************************************)
(* formatting.ts: renderMarkdownTable                                      *)
(***************************************************************************)
\* The headers argument: omitted, or an array.
Omitted == [given |-> FALSE]
Given(value) == [given |-> TRUE, value |-> value]

\* headers: string[] = []
HeadersOrDefault(h) == IF h.given THEN h.value ELSE <<>>

\* [':---', ':---:', ':---:', ':---:'].slice(0, rows[0].length)
AlignRow(firstRow) == SliceFront(<<":---", ":---:", ":---:", ":---:">>, Len(firstRow))

\* [headers, align, ...rows].filter(Boolean): every array is truthy, the empty
\* one too, so the filter keeps every line.
TableLines(rs, h) == <<HeadersOrDefault(h), AlignRow(rs[1])>> \o rs

\* `| ${columns.join(' | ')} |`
TableLine(columns) == "| " \o Join(columns, " | ") \o " |"

\* renderMarkdownTable(rows, headers), as the sequence of the lines that
\* join('\n') puts together; the empty string is the empty sequence.
renderMarkdownTable(rs, h) ==
    IF Len(rs) = 0 THEN <<>>
    ELSE [i \in 1..Len(TableLines(rs, h)) |-> TableLine(TableLines(rs, h)[i])]

(***************************************************************************)
(* report.ts: isValidReport, parseSpec, parseReport                        *)
(***************************************************************************)
\* key in object
Has(object, key) == key \in DOMAIN object

\* The error a call throws, and the value it returns.
Thrown(error) == [thrown |-> TRUE, error |-> error]

\* isValidReport(report), lines 107-114.  value is what JSON.parse returned:
\* [kind |-> "object", object |-> <record>], or a null, a number, a string or
\* an array, none of which has a key named config or suites.
isValidReport(value) ==
    /\ value.kind \in {"object", "array", "null"}    \* typeof report === 'object'
    /\ value.kind # "null"                           \* report !== null
    /\ value.kind = "object"                         \* no array has either key
    /\ Has(value.object, "config")                   \* 'config' in report
    /\ Has(value.object, "suites")                   \* 'suites' in report

\* The four flags of parseSpec, lines 182-185.
SpecFlags(ok, status) ==
    LET flaky == status = "flaky"
        skipped == status = "skipped"
        failed == ~ok \/ status = "unexpected"
        passed == ok /\ ~skipped /\ ~failed
    IN  [passed |-> passed, failed |-> failed, flaky |-> flaky, skipped |-> skipped]

\* parseSpec(spec, parents), lines 171-187; parents are the titles of the
\* suites above the spec.  The arrow that joins the path is written " -> ".
parseSpec(spec, parents) ==
    LET test == spec.tests[1]
        path == FilterBoolean(<<test.projectName>> \o parents \o <<spec.title>>)
    IN  SpecFlags(spec.ok, test.status) @@
        [title |-> Join(path, " -> "), path |-> path,
         line |-> spec.line, column |-> spec.column]

\* The property reads of parseReport and parseSpec that throw a TypeError: a
\* property of undefined (config.metadata, file.suites, suite.specs, tests[0]),
\* or undefined taken as an array (config.projects, file.specs).
SpecThrows(spec) == ~Has(spec, "tests") \/ Len(spec.tests) = 0

SuiteSpecsThrow(suite) ==
    \/ ~Has(suite, "specs")
    \/ \E k \in 1..Len(suite.specs) : SpecThrows(suite.specs[k])

FileThrows(file) ==
    \/ ~Has(file, "suites")
    \/ SuiteSpecsThrow(file)
    \/ \E c \in 1..Len(file.suites) : SuiteSpecsThrow(file.suites[c])

ReportThrows(report) ==
    \/ ~Has(report.config, "metadata")
    \/ ~Has(report.config, "projects")
    \/ \E f \in 1..Len(report.suites) : FileThrows(report.suites[f])

\* a || b on numbers, with what is absent as undefined: the first that is
\* present and not 0, else the last.
Truthy(object, key) == Has(object, key) /\ object[key] # 0

\* line 125: report.config.metadata.totalTime || 0
ParseDuration(config) ==
    IF Truthy(config.metadata, "totalTime") THEN config.metadata.totalTime ELSE 0

\* lines 126-127: metadata.actualWorkers || config.workers || 1
ParseWorkers(config) ==
    IF Truthy(config.metadata, "actualWorkers") THEN config.metadata.actualWorkers
    ELSE IF Truthy(config, "workers") THEN config.workers
    ELSE 1

\* line 128: report.config.shard?.total || 0
ParseShards(config) ==
    IF Has(config, "shard") /\ Truthy(config.shard, "total") THEN config.shard.total
    ELSE 0

\* flat(): the concatenation of an array of arrays
RECURSIVE Flat(_)
Flat(arrays) == IF Len(arrays) = 0 THEN <<>> ELSE arrays[1] \o Flat(Tail(arrays))

\* lines 134-138: the display names one file contributes to suites
\* Variant: the file named as well as its nested suites; C4 fails on it.
FileSuiteNamesWithFile(file) ==
    <<file.title>> \o
        [c \in 1..Len(file.suites) |-> file.title \o " > " \o file.suites[c].title]

FileSuiteNames(file) ==
    IF Len(file.suites) # 0
    THEN [c \in 1..Len(file.suites) |-> file.title \o " > " \o file.suites[c].title]
    ELSE <<file.title>>

\* lines 140-147: the spec summaries one file contributes to specs
\* Variant: the nested suites' specs before the file's own; C5 fails on it.
FileSpecsNestedFirst(file) ==
    Flat([c \in 1..Len(file.suites) |->
            [k \in 1..Len(file.suites[c].specs) |->
                parseSpec(file.suites[c].specs[k], <<file.title, file.suites[c].title>>)]])
    \o [k \in 1..Len(file.specs) |-> parseSpec(file.specs[k], <<file.title>>)]

FileSpecs(file) ==
    [k \in 1..Len(file.specs) |-> parseSpec(file.specs[k], <<file.title>>)]
    \o Flat([c \in 1..Len(file.suites) |->
                [k \in 1..Len(file.suites[c].specs) |->
                    parseSpec(file.suites[c].specs[k], <<file.title, file.suites[c].title>>)]])

\* lines 124-168, for a report that passed isValidReport and throws nowhere.
\* version is <<v>>, or << >> for undefined.
Summarize(report) ==
    LET config == report.config
        specs == Flat([f \in 1..Len(report.suites) |-> FileSpecs(report.suites[f])])
    IN  [thrown |-> FALSE,
         version |-> IF Has(config, "version") THEN <<config.version>> ELSE <<>>,
         duration |-> ParseDuration(config),
         workers |-> ParseWorkers(config),
         shards |-> ParseShards(config),
         projects |-> [p \in 1..Len(config.projects) |-> config.projects[p].name],
         files |-> [f \in 1..Len(report.suites) |-> report.suites[f].title],
         suites |-> Flat([f \in 1..Len(report.suites) |-> FileSuiteNames(report.suites[f])]),
         specs |-> specs,
         failed |-> SelectSeq(specs, LAMBDA spec : spec.failed),
         passed |-> SelectSeq(specs, LAMBDA spec : spec.passed),
         flaky |-> SelectSeq(specs, LAMBDA spec : spec.flaky),
         skipped |-> SelectSeq(specs, LAMBDA spec : spec.skipped)]

\* parseReport(data), lines 116-169
parseReport(d) ==
    IF ~d.wellFormed THEN Thrown("SyntaxError")                    \* JSON.parse
    ELSE IF ~isValidReport(d.value) THEN Thrown("Invalid report file")
    ELSE IF ReportThrows(d.value.object) THEN Thrown("TypeError")
    ELSE Summarize(d.value.object)

(***************************************************************************)
(* report.ts: renderReportSummary.  Text is a sequence of tokens.          *)
(***************************************************************************)
\* The tokens that are white space only.
Whitespace == {" ", "  ", "\n", "\n\t", "\n\n"}

\* A TLA+ string as text: the empty string has no token.
Str(string) == IF string = "" THEN <<>> ELSE <<string>>

\* `${value}` of an optional string: undefined reads "undefined".
Interpolate(option) == IF option.given THEN option.value ELSE <<"undefined">>

\* The truthiness of an optional string: undefined and '' are falsy.
IsTruthy(option) == option.given /\ option.value # <<>>

\* String.prototype.trim
RECURSIVE TrimStart(_)
TrimStart(tokens) ==
    IF Len(tokens) > 0 /\ Head(tokens) \in Whitespace THEN TrimStart(Tail(tokens))
    ELSE tokens

RECURSIVE TrimEnd(_)
TrimEnd(tokens) ==
    IF Len(tokens) > 0 /\ tokens[Len(tokens)] \in Whitespace
    THEN TrimEnd(SubSeq(tokens, 1, Len(tokens) - 1))
    ELSE tokens

Trim(tokens) == TrimEnd(TrimStart(tokens))

\* texts.filter(Boolean): the empty text is falsy
FilterText(texts) == SelectSeq(texts, LAMBDA t : t # <<>>)

\* texts.join(separator), separator a text
RECURSIVE JoinText(_, _)
JoinText(texts, separator) ==
    IF Len(texts) = 0 THEN <<>>
    ELSE IF Len(texts) = 1 THEN texts[1]
    ELSE texts[1] \o separator \o JoinText(Tail(texts), separator)

\* renderIcon(symbol, { iconStyle }) of ./icons: a glyph for the symbol in the
\* style, the default style when none is given.
renderIcon(symbol, iconStyle) ==
    "<" \o (IF iconStyle.given THEN iconStyle.value ELSE "default") \o ":" \o symbol \o ">"

\* line 199: `### ${title}`
TitleParagraph(o) == <<"###", " ">> \o Interpolate(o.title)

\* lines 203-209: the counts of the categories that have specs
CountFragment(report, o, category, tail) ==
    IF Len(report[category]) # 0
    THEN <<renderIcon(category, o.iconStyle), "  ", "**",
           NumberToString(Tenths(Len(report[category]))), " ", category, "**">> \o tail
    ELSE <<>>

TestsParagraph(report, o) ==
    JoinText(FilterText(<<CountFragment(report, o, "failed", <<>>),
                          CountFragment(report, o, "passed", <<"  ">>),
                          CountFragment(report, o, "flaky", <<"  ">>),
                          CountFragment(report, o, "skipped", <<>>)>>),
             <<"  ", "\n">>)

\* lines 215-227: the statistics of the run (the link text is written without
\* its arrow)
StatsParagraph(report, o) ==
    LET short == SliceFront(o.commit.value, 7)       \* commit.slice(0, 7)
    IN  JoinText(FilterText(<<
            IF IsTruthy(o.reportUrl)
            THEN <<renderIcon("report", o.iconStyle), "  ", "[Open report](">>
                    \o o.reportUrl.value \o <<")">>
            ELSE <<>>,
            <<renderIcon("stats", o.iconStyle), "  ",
              NumberToString(Tenths(Len(report.specs))), " ",
              n("test", Tenths(Len(report.specs))), " ", "across", " ",
              NumberToString(Tenths(Len(report.suites))), " ",
              n("suite", Tenths(Len(report.suites)))>>,
            <<renderIcon("duration", o.iconStyle), "  ">>
                \o Str(formatDuration(report.duration)),
            IF IsTruthy(o.commit) /\ IsTruthy(o.message)
            THEN <<renderIcon("commit", o.iconStyle), "  ">> \o o.message.value
                    \o <<" ", "(">> \o short \o <<")">>
            ELSE <<>>,
            IF IsTruthy(o.commit) /\ ~IsTruthy(o.message)
            THEN <<renderIcon("commit", o.iconStyle), "  ">> \o short
            ELSE <<>> >>),
        <<"  ", "\n">>)

\* line 231: the categories that are listed
\* Variant: passed listed as well; C6 fails on it.
listStatusesWithPassed == <<"failed", "passed", "flaky", "skipped">>

listStatuses == <<"failed", "flaky", "skipped">>

\* line 236: ${status === 'failed' ? 'open' : ''}
DetailsAttribute(status) == IF status = "failed" THEN "open" ELSE ""

\* lines 233-240: the collapsible block of one category; undefined, dropped
\* by filter(Boolean) as the empty text standing for it is, when it has no
\* spec.
DetailsBlock(report, status) ==
    LET tests == report[status]
    IN  IF Len(tests) # 0
        THEN <<"\n\t", "<details ">> \o Str(DetailsAttribute(status)) \o <<">", "\n\t",
               "<summary><strong>", UpperCaseFirst(status), " tests</strong></summary>",
               "\n\t", "<ul>">>
             \o JoinText([i \in 1..Len(tests) |-> <<"<li>", tests[i].title, "</li>">>],
                         <<"\n">>)
             \o <<"</ul>", "\n\t", "</details>">>
        ELSE <<>>

\* lines 232-247
DetailsParagraph(report) ==
    LET details == [i \in 1..Len(listStatuses) |-> DetailsBlock(report, listStatuses[i])]
        kept == FilterText(details)
    IN  JoinText([i \in 1..Len(kept) |-> Trim(kept[i])], <<"\n">>)

\* renderReportSummary(report, options), lines 189-253
renderReportSummary(report, o) ==
    LET paragraphs == <<TitleParagraph(o), TestsParagraph(report, o),
                        <<"####", " ", "Details">>, StatsParagraph(report, o),
                        DetailsParagraph(report)>>
    IN  JoinText(FilterText([i \in 1..Len(paragraphs) |-> Trim(paragraphs[i])]),
                 <<"\n\n">>)

(***************************************************************************)
(* The reports parseReport is called with                                  *)
(***************************************************************************)
\* object restricted to the keys in keys
Pick(object, keys) == [k \in keys |-> object[k]]

\* The eight combinations of a spec's ok flag and its first test's status.
Outcomes ==
    << <<TRUE, "expected">>, <<FALSE, "unexpected">>, <<TRUE, "flaky">>,
       <<TRUE, "skipped">>, <<TRUE, "unexpected">>, <<FALSE, "flaky">>,
       <<FALSE, "skipped">>, <<FALSE, "expected">> >>

\* The g-th spec of a report, in document order.  Its outcome is the g-th of
\* Outcomes counted cyclically from seed; the project name is empty (the
\* default project) for odd seeds.
SpecJson(g, seed) ==
    LET outcome == Outcomes[((seed + g - 1) % Len(Outcomes)) + 1]
    IN  [title |-> "t" \o ToString(g), ok |-> outcome[1],
         tests |-> <<[status |-> outcome[2],
                      projectName |-> IF seed % 2 = 0 THEN "chromium" ELSE ""]>>,
         line |-> g, column |-> 1]

\* A suite tree is given by its shape: the suites in document order, each as
\* <<depth, number of specs>>, depth 1 being a file; a suite's depth is at most
\* one more than that of the suite before it.
\* The suites directly under suite i (under the root for i = 0), in order.
ChildrenOf(shape, i) ==
    LET depth == IF i = 0 THEN 0 ELSE shape[i][1]
        isChild(j) == /\ j > i
                      /\ shape[j][1] = depth + 1
                      /\ \A k \in (i + 1)..(j - 1) : shape[k][1] > depth
    IN  SelectSeq([j \in 1..Len(shape) |-> j], isChild)

\* The number of specs of the suites before suite i.
RECURSIVE SpecsBefore(_, _)
SpecsBefore(shape, i) ==
    IF i <= 1 THEN 0 ELSE SpecsBefore(shape, i - 1) + shape[i - 1][2]

RECURSIVE SuiteJson(_, _, _)
SuiteJson(shape, i, seed) ==
    LET children == ChildrenOf(shape, i)
    IN  [title |-> "s" \o ToString(i),
         specs |-> [k \in 1..shape[i][2] |-> SpecJson(SpecsBefore(shape, i) + k, seed)],
         suites |-> [c \in 1..Len(children) |-> SuiteJson(shape, children[c], seed)]]

SuitesJson(shape, seed) ==
    LET files == ChildrenOf(shape, 0)
    IN  [f \in 1..Len(files) |-> SuiteJson(shape, files[f], seed)]

\* Bounds: at most MaxSuites suites in a report (files and nested suites
\* together), nested at most MaxDepth deep, with at most MaxSpecs specs in all.
MaxSuites == 4
MaxDepth == 3
MaxSpecs == 4

RECURSIVE ShapesOfLen(_)
ShapesOfLen(len) ==
    IF len = 0 THEN {<<>>}
    ELSE UNION {{Append(shape, <<depth, count>>) :
                    depth \in 1..(IF len = 1 THEN 1 ELSE Min(MaxDepth, shape[len - 1][1] + 1)),
                    count \in 0..(MaxSpecs - SpecsBefore(shape, len))} :
                shape \in ShapesOfLen(len - 1)}

Shapes == UNION {ShapesOfLen(len) : len \in 0..MaxSuites}

Seeds == 0..(Len(Outcomes) - 1)

\* A complete config section.
FullMetadata == [actualWorkers |-> 2, totalTime |-> 1500]
FullConfig ==
    [version |-> "1.40.0", workers |-> 4, metadata |-> FullMetadata,
     shard |-> [total |-> 3], projects |-> <<[id |-> "p1", name |-> "chromium"]>>]

\* The config sections: any of the keys absent, the numbers 0 or not.
Metadatas ==
    {Pick([actualWorkers |-> a, totalTime |-> t], keys) :
        a \in {0, 2}, t \in {0, 1500}, keys \in SUBSET {"actualWorkers", "totalTime"}}

Shards == {Pick([total |-> t], keys) : t \in {0, 3}, keys \in SUBSET {"total"}}

Configs ==
    {Pick([version |-> "1.40.0", workers |-> w, metadata |-> m, shard |-> s,
           projects |-> p], keys) :
        w \in {0, 4}, m \in Metadatas, s \in Shards,
        p \in {<<>>, <<[id |-> "p1", name |-> "chromium"]>>},
        keys \in SUBSET {"version", "workers", "metadata", "shard", "projects"}}

Json(object) == [wellFormed |-> TRUE, value |-> [kind |-> "object", object |-> object]]

\* Text that is no JSON, and JSON that is no object with both keys.
RejectedData ==
    {[wellFormed |-> FALSE]}
    \cup {[wellFormed |-> TRUE, value |-> [kind |-> k]] :
            k \in {"null", "number", "string", "boolean", "array"}}
    \cup {Json(Pick([config |-> FullConfig, suites |-> SuitesJson(<< <<1, 1>> >>, 0),
                     errors |-> <<>>], keys)) :
            keys \in SUBSET {"config", "suites", "errors"} \ {{"config", "suites"},
                                                               {"config", "suites", "errors"}}}

\* Reports with both keys and a part missing further down: a file without
\* suites or without specs, a nested suite without specs, a spec without
\* tests or with none.
BrokenSuites ==
    LET file == SuitesJson(<< <<1, 1>>, <<2, 1>> >>, 0)[1]
        spec == file.specs[1]
    IN  {<<Pick(file, {"title", "specs"})>>,
         <<Pick(file, {"title", "suites"})>>,
         <<[file EXCEPT !.suites = <<Pick(file.suites[1], {"title", "suites"})>>]>>,
         <<[file EXCEPT !.specs = <<Pick(spec, {"title", "ok", "line", "column"})>>]>>,
         <<[file EXCEPT !.specs = <<[spec EXCEPT !.tests = <<>>]>>]>>}

\* The reports without a suite tree of their own.
ParseData ==
    RejectedData
    \cup {Json([config |-> FullConfig, suites |-> suites]) : suites \in BrokenSuites}
    \cup {Json([config |-> config, suites |-> SuitesJson(<< <<1, 1>> >>, 0)]) :
            config \in Configs}

(***************************************************************************)
(* SpecParse: one call of parseReport                                      *)
(***************************************************************************)
InitParse ==
    /\ pc = "parseReport"
    /\ \/ data \in ParseData
       \/ \E shape \in Shapes, seed \in Seeds :
            data = Json([config |-> FullConfig, suites |-> SuitesJson(shape, seed)])
    /\ summary = Unused
    /\ options = Unused /\ markdown = Unused
    /\ milliseconds = Unused /\ components = Unused /\ text = Unused
    /\ rows = Unused /\ headers = Unused /\ table = Unused

ParseReport ==
    /\ pc = "parseReport"
    /\ summary' = parseReport(data)
    /\ pc' = IF summary'.thrown THEN "thrown" ELSE "parsed"
    /\ UNCHANGED <<data, options, markdown, milliseconds, components, text,
                   rows, headers, table>>

NextParse == ParseReport

SpecParse == InitParse /\ [][NextParse]_vars

(***************************************************************************)
(* SpecRender: parseReport, then renderReportSummary on its summary        *)
(***************************************************************************)
\* The reports rendered: suite trees of at most MaxRenderSuites suites, a run
\* that took 1.5 seconds or no time at all.
MaxRenderSuites == 2

RenderShapes == UNION {ShapesOfLen(len) : len \in 0..MaxRenderSuites}

RenderConfigs == {FullConfig, [FullConfig EXCEPT !.metadata = [actualWorkers |-> 2]]}

\* The options: each omitted, empty or given.
Titles == {Omitted, Given(<<>>), Given(<<"Report">>), Given(<<"Test", " ", "results">>)}
Commits == {Omitted, Given(<<"a", "1", "b", "2", "c", "3", "d", "4", "e", "5">>)}
Messages == {Omitted, Given(<<>>), Given(<<"Fix", " ", "tests">>)}
ReportUrls == {Omitted, Given(<<"https://example.com/report">>)}
IconStyles == {Omitted, Given("emojis")}

RenderOptions ==
    [title : Titles, commit : Commits, message : Messages, reportUrl : ReportUrls,
     iconStyle : IconStyles]

InitRender ==
    /\ pc = "parseReport"
    /\ \E shape \in RenderShapes, seed \in Seeds, config \in RenderConfigs :
            data = Json([config |-> config, suites |-> SuitesJson(shape, seed)])
    /\ summary = Unused
    /\ options = Unused /\ markdown = Unused
    /\ milliseconds = Unused /\ components = Unused /\ text = Unused
    /\ rows = Unused /\ headers = Unused /\ table = Unused

RenderReportSummary ==
    /\ pc = "parsed"
    /\ \E o \in RenderOptions :
        /\ options' = o
        /\ markdown' = renderReportSummary(summary, o)
    /\ pc' = "rendered"
    /\ UNCHANGED <<data, summary, milliseconds, components, text, rows, headers, table>>

NextRender == ParseReport \/ RenderReportSummary

SpecRender == InitRender /\ [][NextRender]_vars

(***************************************************************************)
(* SpecDuration: one call of formatDuration                                *)
(***************************************************************************)
\* The sampled remainders below a minute: around the rounding steps, the
\* singular "1 second" and the top of the range.
SampleRemainders == {0, 49, 50, 51, 950, 1000, 1049, 1050, 1500, 30000, 59949, 59950, 59999}

Durations ==
    (0..MaxMs) \cup
    {d * DAY + h * HOUR + m * MINUTE + r :
        d \in 0..MaxDays, h \in {0, 1, 23}, m \in {0, 1, 2, 59}, r \in SampleRemainders}

InitDuration ==
    /\ pc = "formatDuration"
    /\ milliseconds \in Durations
    /\ components = Unused
    /\ text = Unused
    /\ data = Unused /\ summary = Unused /\ options = Unused /\ markdown = Unused
    /\ rows = Unused /\ headers = Unused /\ table = Unused

FormatDuration ==
    /\ pc = "formatDuration"
    /\ components' = DurationComponents(milliseconds)
    /\ text' = DurationText(components')
    /\ pc' = "formatted"
    /\ UNCHANGED <<data, summary, options, markdown, milliseconds, rows, headers, table>>

NextDuration == FormatDuration

SpecDuration == InitDuration /\ [][NextDuration]_vars

(***************************************************************************)
(* SpecTable: one call of renderMarkdownTable                              *)
(***************************************************************************)
\* A table of r rows and c columns; each cell names its place.
Cell(i, j) == "r" \o ToString(i) \o "c" \o ToString(j)
Rows(r, c) == [i \in 1..r |-> [j \in 1..c |-> Cell(i, j)]]
HeaderRow(c) == [j \in 1..c |-> "h" \o ToString(j)]

TableArguments ==
    {<<Rows(r, c), h>> :
        r \in 0..MaxRows, c \in 1..MaxCols,
        h \in {Omitted, Given(<<>>)} \cup {Given(HeaderRow(k)) : k \in 1..MaxCols}}

InitTable ==
    /\ pc = "renderMarkdownTable"
    /\ \E a \in TableArguments : rows = a[1] /\ headers = a[2]
    /\ table = Unused
    /\ data = Unused /\ summary = Unused /\ options = Unused /\ markdown = Unused
    /\ milliseconds = Unused /\ components = Unused /\ text = Unused

RenderMarkdownTable ==
    /\ pc = "renderMarkdownTable"
    /\ table' = renderMarkdownTable(rows, headers)
    /\ pc' = "tabled"
    /\ UNCHANGED <<data, summary, options, markdown, milliseconds, components, text,
                   rows, headers>>

NextTable == RenderMarkdownTable

SpecTable == InitTable /\ [][NextTable]_vars

(***************************************************************************)
(* Claims about parseReport (SpecParse)                                    *)
(***************************************************************************)
\* The object parseReport read, once it has returned a summary.
Report == data.value.object

\* C1: for every report parseReport accepts, failed.length + passed.length +
\* flaky.length + skipped.length = specs.length, every spec summary having
\* exactly one of its four flags set.
C1_OneFlagPerSpec ==
    pc = "parsed" =>
        /\ Len(summary.failed) + Len(summary.passed) + Len(summary.flaky)
              + Len(summary.skipped) = Len(summary.specs)
        /\ \A i \in 1..Len(summary.specs) :
              Cardinality({flag \in {"passed", "failed", "flaky", "skipped"} :
                              summary.specs[i][flag]}) = 1

\* C2: parseReport returns a summary if and only if the text is well formed
\* and its value has both a config and a suites key; otherwise it fails with
\* the parse error, and never because a field further down is missing.
HasBothKeys(d) ==
    /\ d.wellFormed
    /\ d.value.kind = "object"
    /\ Has(d.value.object, "config")
    /\ Has(d.value.object, "suites")

C2_ShapeCheckDecides ==
    pc \in {"parsed", "thrown"} =>
        /\ ~summary.thrown <=> HasBothKeys(data)
        /\ summary.thrown => summary.error \in {"SyntaxError", "Invalid report file"}

\* C3: workers, shards and duration are resolved by presence: workers is
\* metadata.actualWorkers whenever present (0 included), else config.workers
\* whenever present, else 1; shards is shard.total when present, else 0;
\* duration is metadata.totalTime when present, else 0.
C3_ResolvedByPresence ==
    pc = "parsed" =>
        LET config == Report.config
            metadata == config.metadata
        IN  /\ summary.workers =
                  IF Has(metadata, "actualWorkers") THEN metadata.actualWorkers
                  ELSE IF Has(config, "workers") THEN config.workers
                  ELSE 1
            /\ summary.shards =
                  IF Has(config, "shard") /\ Has(config.shard, "total")
                  THEN config.shard.total ELSE 0
            /\ summary.duration =
                  IF Has(metadata, "totalTime") THEN metadata.totalTime ELSE 0

\* The number of names a file gives to summary.suites, and the number given
\* by the files before file f.
NamesOf(file) == IF Len(file.suites) = 0 THEN 1 ELSE Len(file.suites)

RECURSIVE NamesBefore(_, _)
NamesBefore(files, f) ==
    IF f <= 1 THEN 0 ELSE NamesBefore(files, f - 1) + NamesOf(files[f - 1])

\* C4: summary.suites is, file after file, one entry "<file title> > <nested
\* title>" per nested suite of a file that has nested suites (and none for the
\* file itself), and the file title alone for a file that has none; so
\* suites.length >= files.length.
C4_SuiteNames ==
    pc = "parsed" =>
        LET files == Report.suites
        IN  /\ Len(summary.suites) = NamesBefore(files, Len(files) + 1)
            /\ \A f \in 1..Len(files) :
                  LET at == NamesBefore(files, f)
                  IN  IF Len(files[f].suites) = 0
                      THEN summary.suites[at + 1] = files[f].title
                      ELSE \A c \in 1..Len(files[f].suites) :
                              summary.suites[at + c] =
                                  files[f].title \o " > " \o files[f].suites[c].title
            /\ Len(summary.suites) >= Len(summary.files)

\* C4 witness: a file with two nested suites, then a file with none.
C4_Witness ==
    /\ pc = "parsed"
    /\ summary.files = <<"s1", "s4">>
    /\ summary.suites = <<"s1 > s2", "s1 > s3", "s4">>

\* Where the specs of depth one and two are: <<f, 0, k>> is the k-th spec
\* directly under file f, <<f, c, k>> the k-th spec of its c-th nested suite.
Origins ==
    UNION {{<<f, 0, k>> : k \in 1..Len(Report.suites[f].specs)}
           \cup UNION {{<<f, c, k>> : k \in 1..Len(Report.suites[f].suites[c].specs)} :
                        c \in 1..Len(Report.suites[f].suites)} :
           f \in 1..Len(Report.suites)}

SpecAt(o) ==
    IF o[2] = 0 THEN Report.suites[o[1]].specs[o[3]]
    ELSE Report.suites[o[1]].suites[o[2]].specs[o[3]]

\* Document order: by file, a file's own specs before those of its nested
\* suites, nested suites in order, specs in order.
Before(a, b) ==
    \/ a[1] < b[1]
    \/ a[1] = b[1] /\ a[2] < b[2]
    \/ a[1] = b[1] /\ a[2] = b[2] /\ a[3] < b[3]

Rank(o) == 1 + Cardinality({p \in Origins : Before(p, o)})

\* sub takes its elements from seq, in the order they have in seq.
IsOrderedPartOf(sub, seq) ==
    \E at \in [1..Len(sub) -> 1..Len(seq)] :
        /\ \A i \in 1..Len(sub) : seq[at[i]] = sub[i]
        /\ \A i \in 1..(Len(sub) - 1) : at[i] < at[i + 1]

\* C5: summary.specs lists, file by file, every spec directly under the file
\* and then every spec of each of its nested suites, in order; specs nested
\* deeper never appear, so specs.length is the number of specs at depth one
\* and two; failed, passed, flaky and skipped each keep the order of specs.
C5_SpecOrder ==
    pc = "parsed" =>
        /\ Len(summary.specs) = Cardinality(Origins)
        /\ \A o \in Origins :
              /\ summary.specs[Rank(o)].line = SpecAt(o).line
              /\ summary.specs[Rank(o)].path[Len(summary.specs[Rank(o)].path)]
                    = SpecAt(o).title
        /\ IsOrderedPartOf(summary.failed, summary.specs)
        /\ IsOrderedPartOf(summary.passed, summary.specs)
        /\ IsOrderedPartOf(summary.flaky, summary.specs)
        /\ IsOrderedPartOf(summary.skipped, summary.specs)

\* C5 witness: a file with a spec of its own (t1), a nested suite with a spec
\* (t2) and under it a deeper suite with a spec (t3), then a second file with
\* a spec (t4): t3 is left out.
C5_Witness ==
    /\ pc = "parsed"
    /\ Len(Report.suites) = 2
    /\ Len(Report.suites[1].suites) = 1
    /\ Len(Report.suites[1].suites[1].suites) = 1
    /\ Len(Report.suites[1].suites[1].suites[1].specs) = 1
    /\ [i \in 1..Len(summary.specs) |-> summary.specs[i].line] = <<1, 2, 4>>
    /\ Len(summary.failed) = 2

(***************************************************************************)
(* Claims about renderReportSummary (SpecRender)                           *)
(***************************************************************************)
\* The places of a token in the markdown returned, in order.
Positions(token) ==
    SelectSeq([i \in 1..Len(markdown) |-> i], LAMBDA i : markdown[i] = token)

\* The tokens that follow the token `after` between two places of the markdown.
Following(after, from, to) ==
    LET places == SelectSeq([i \in 1..(to - from) |-> from + i - 1],
                            LAMBDA i : markdown[i] = after)
    IN  [k \in 1..Len(places) |-> markdown[places[k] + 1]]

Capitalized(category) ==
    CASE category = "failed" -> "Failed"
      [] category = "flaky" -> "Flaky"
      [] category = "skipped" -> "Skipped"
      [] category = "passed" -> "Passed"

\* C6: renderReportSummary emits collapsible blocks only for failed, flaky and
\* skipped, in that order, one per category that has specs and none for an
\* empty one; never one for passed; only the failed block is open; each block
\* lists the display titles of its category's specs in order.
C6_CollapsibleBlocks ==
    pc = "rendered" =>
        LET listed == SelectSeq(<<"failed", "flaky", "skipped">>,
                                LAMBDA category : Len(summary[category]) > 0)
            starts == Positions("<details ")
            ends == Positions("</details>")
        IN  /\ Len(starts) = Len(listed)
            /\ Len(ends) = Len(listed)
            /\ \A b \in 1..Len(listed) :
                  /\ starts[b] < ends[b]
                  /\ b < Len(listed) => ends[b] < starts[b + 1]
                  /\ markdown[starts[b] + 1] = "open" <=> listed[b] = "failed"
                  /\ Following("<summary><strong>", starts[b], ends[b])
                        = <<Capitalized(listed[b])>>
                  /\ Following("<li>", starts[b], ends[b])
                        = [i \in 1..Len(summary[listed[b]]) |-> summary[listed[b]][i].title]
            /\ \A i \in 1..(Len(markdown) - 1) :
                  markdown[i] = "<summary><strong>" => markdown[i + 1] # Capitalized("passed")

\* C6 witness: a summary with two failed specs and a passed, a flaky and a
\* skipped one, rendered with three blocks.
C6_Witness ==
    /\ pc = "rendered"
    /\ Len(summary.failed) = 2
    /\ Len(summary.passed) = 1
    /\ Len(summary.flaky) = 1
    /\ Len(summary.skipped) = 1
    /\ Len(Positions("<details ")) = 3
    /\ Len(Positions("open")) = 1

\* The first paragraph of the markdown returned: what stands before the first
\* blank line.
FirstParagraph ==
    LET breaks == Positions("\n\n")
    IN  SubSeq(markdown, 1, IF Len(breaks) = 0 THEN Len(markdown) ELSE breaks[1] - 1)

\* C8: whatever the options, all of them optional, the first paragraph is
\* '###' followed by the title supplied, and the bare '###' when no title text
\* is supplied (the title empty, or the option omitted).
C8_TitleParagraph ==
    pc = "rendered" =>
        FirstParagraph =
            IF options.title.given /\ options.title.value # <<>>
            THEN <<"###", " ">> \o options.title.value
            ELSE <<"###">>

(***************************************************************************)
(* Claims about formatDuration (SpecDuration)                              *)
(***************************************************************************)
\* A component followed by its label: singular when the component is 1.
ExpectedPart(x, label) ==
    NumberToString(x) \o " " \o (IF x = Tenths(1) THEN label ELSE label \o "s")

\* The comma-joined list of the non-zero components among values, in order.
ExpectedList(values, labels) ==
    LET upTo[i \in 0..Len(values)] ==
            IF i = 0 THEN ""
            ELSE IF values[i] = 0 THEN upTo[i - 1]
            ELSE (IF upTo[i - 1] = "" THEN "" ELSE upTo[i - 1] \o ", ")
                    \o ExpectedPart(values[i], labels[i])
    IN  upTo[Len(values)]

\* C7: for every non-negative millisecond count, formatDuration returns the
\* comma-joined list, in the order days, hours, minutes, seconds, of exactly
\* the non-zero components of the cascading decomposition (day 86,400,000 ms,
\* hour 3,600,000 ms, minute 60,000 ms, seconds the remainder / 1000 rounded
\* to one decimal), each with its label, singular when the component is 1;
\* the result for 0 is the empty string.
C7_DurationList ==
    pc = "formatted" =>
        LET d == milliseconds \div 86400000
            afterDays == milliseconds - d * 86400000
            h == afterDays \div 3600000
            afterHours == afterDays - h * 3600000
            m == afterHours \div 60000
            remainder == afterHours - m * 60000
            s == components.seconds
        IN  /\ 100 * s - remainder \in -50..50
            /\ text = ExpectedList(<<Tenths(d), Tenths(h), Tenths(m), s>>,
                                   <<"day", "hour", "minute", "second">>)
            /\ (milliseconds = 0 => text = "")

\* C7 witness: all four components printed, three in the singular, the
\* seconds with a decimal.
C7_Witness ==
    /\ pc = "formatted"
    /\ milliseconds = 86400000 + 3600000 + 60000 + 1500
    /\ text = "1 day, 1 hour, 1 minute, 1.5 seconds"

\* C10: every component formatDuration prints is within its unit's range:
\* hours < 24, minutes < 60 and the printed seconds < 60; the output never
\* reads "60 seconds".
C10_ComponentsInRange ==
    pc = "formatted" =>
        /\ components.hours < 24
        /\ components.minutes < 60
        /\ components.seconds < Tenths(60)

(***************************************************************************)
(* Claims about renderMarkdownTable (SpecTable)                            *)
(***************************************************************************)
\* C9: renderMarkdownTable returns the empty string when rows is empty;
\* otherwise the header row only if headers were provided, then one alignment
\* row of min(columns of the first row, 4) cells, ':---' first and ':---:'
\* after, then one line per data row in order; with headers omitted the
\* output has exactly 1 + |rows| lines and starts with the alignment row.
C9_TableLayout ==
    pc = "tabled" =>
        IF Len(rows) = 0 THEN table = <<>>
        ELSE LET lead == IF headers.given THEN 1 ELSE 0
                 cells == Min(Len(rows[1]), 4)
                 align == [j \in 1..cells |-> IF j = 1 THEN ":---" ELSE ":---:"]
             IN  /\ Len(table) = lead + 1 + Len(rows)
                 /\ headers.given => table[1] = TableLine(headers.value)
                 /\ table[lead + 1] = TableLine(align)
                 /\ \A i \in 1..Len(rows) : table[lead + 1 + i] = TableLine(rows[i])

====
